---- MODULE Spec2Model ----
(***************************************************************************)
(* Model of pipoke.pkg_diagnosis: the package-diagnosis pipeline.          *)
(*                                                                         *)
(* A run is one call of diagnose_pkgs (or of diagnose_pkg directly): the   *)
(* arguments are resolved, then for each package the installation is       *)
(* checked, the package is installed when absent, the diagnoses are run    *)
(* one by one, and the package is uninstalled when it was installed here.  *)
(*                                                                         *)
(* Python strings are modelled as sequences of one-character strings, so   *)
(* that str.split and file.readlines are computed and not assumed.         *)
(* Ordered dicts are sequences of <<key, value>> pairs with unique keys.   *)
(* Python values are tagged tuples: <<"int", 3>>, <<"str", s>>, <<"None">>,*)
(* <<"obj", f, s>> (the structured result of the probe f on s).            *)
(***************************************************************************)
EXTENDS Integers, Sequences, FiniteSets, TLC

\* ------------------------------------------------------------------ bounds
MaxPkgs == 2        \* longest package list given to diagnose_pkgs
MaxPathLen == 4     \* longest store_factory string
MaxLoops == 3       \* largest max_formatting_loops
MaxTokens == 3      \* most arguments of ujoin
MaxTokenLen == 2    \* longest argument of ujoin
MaxWordsStr == 3    \* longest str given as words to is_not_a_pkg_name
MaxDiagnoses == 3   \* longest iterable given to _resolve_diagnoses alone

\* ------------------------------------------------------- strings and dicts
Whitespace == {" ", "\n"}

Range(s) == {s[k] : k \in 1..Len(s)}

RECURSIVE Concat(_)
Concat(ss) == IF ss = <<>> THEN <<>> ELSE Head(ss) \o Concat(Tail(ss))

RECURSIVE SplitAcc(_, _, _)
SplitAcc(s, cur, out) ==
    IF s = <<>> THEN (IF cur = <<>> THEN out ELSE Append(out, cur))
    ELSE IF Head(s) \in Whitespace
         THEN SplitAcc(Tail(s), <<>>, IF cur = <<>> THEN out ELSE Append(out, cur))
         ELSE SplitAcc(Tail(s), Append(cur, Head(s)), out)

\* str.split(): cut at runs of whitespace, no empty token
split(s) == SplitAcc(s, <<>>, <<>>)

RECURSIVE ReadLinesAcc(_, _, _)
ReadLinesAcc(s, cur, out) ==
    IF s = <<>> THEN (IF cur = <<>> THEN out ELSE Append(out, cur))
    ELSE IF Head(s) = "\n"
         THEN ReadLinesAcc(Tail(s), <<>>, Append(out, Append(cur, "\n")))
         ELSE ReadLinesAcc(Tail(s), Append(cur, Head(s)), out)

\* file.readlines(): one entry per line, each keeping its line terminator
readlines(s) == ReadLinesAcc(s, <<>>, <<>>)

\* dict operations on a sequence of <<key, value>> pairs
Keys(m) == [k \in 1..Len(m) |-> m[k][1]]
HasKey(m, key) == \E k \in 1..Len(m) : m[k][1] = key
Get(m, key) == m[CHOOSE k \in 1..Len(m) : m[k][1] = key][2]
\* a dict that puts a new key in front of the others
SetItemFront(m, key, val) ==
    IF HasKey(m, key)
    THEN [k \in 1..Len(m) |-> IF m[k][1] = key THEN <<key, val>> ELSE m[k]]
    ELSE <<<<key, val>>>> \o m

\* a dict that keeps the first value given for a key
SetItemKeepingFirst(m, key, val) ==
    IF HasKey(m, key) THEN m ELSE Append(m, <<key, val>>)

\* m[key] = val: a new key is appended, an existing key keeps its position
SetItem(m, key, val) ==
    IF HasKey(m, key)
    THEN [k \in 1..Len(m) |-> IF m[k][1] = key THEN <<key, val>> ELSE m[k]]
    ELSE Append(m, <<key, val>>)

RECURSIVE DictOf(_, _)
DictOf(pairs, acc) ==
    IF pairs = <<>> THEN acc
    ELSE DictOf(Tail(pairs), SetItem(acc, Head(pairs)[1], Head(pairs)[2]))
\* dict(pairs)
dict(pairs) == DictOf(pairs, <<>>)


\* ------------------------------------------------- the diagnosis registry
\* The diagnosis functions are named by their Python names.
DFLT_DIAGNOSES ==
    << <<"json_info", "dflt_json_info_extractor">>,
       <<"pkg_diagnosis_result", "run_pkg_diagnosis">>,
       <<"pkg_folder_diagnosis_result", "run_folder_diagnosis">>,
       <<"test_diagnosis_result", "run_pkg_tests">> >>

\* diagnosis_funcs = dict(DFLT_DIAGNOSES); diagnosis_funcs['all_json_info'] = ...
diagnosis_funcs == SetItem(dict(DFLT_DIAGNOSES), "all_json_info", "json_package_info")

\* An element of an iterable of diagnoses: a bare name (a str) or a pair.
BareName(n) == [isstr |-> TRUE, name |-> n, fn |-> "-"]
Pair(n, f) == [isstr |-> FALSE, name |-> n, fn |-> f]

\* A diagnoses argument: a Mapping, one str, or an iterable of elements.
MappingArg(m) == [kind |-> "mapping", name |-> "-", items |-> m]
StrArg(n) == [kind |-> "str", name |-> n, items |-> <<>>]
IterArg(xs) == [kind |-> "iter", name |-> "-", items |-> xs]
\* None given as the diagnoses
NoneArg == [kind |-> "none", name |-> "-", items |-> <<>>]

Resolved(m) == [raised |-> FALSE, error |-> "-", name |-> "-", value |-> m]
UnknownDiagnosis(n) == [raised |-> TRUE, error |-> "ValueError", name |-> n, value |-> <<>>]
\* the generator iterates over None
NotIterable == [raised |-> TRUE, error |-> "TypeError", name |-> "-", value |-> <<>>]

\* unknown names dropped without a word instead of raising
RECURSIVE resolve_string_diagnoses_skipping(_, _)
resolve_string_diagnoses_skipping(xs, acc) ==
    IF xs = <<>> THEN Resolved(acc)
    ELSE LET x == Head(xs) IN
         IF x.isstr
         THEN IF HasKey(diagnosis_funcs, x.name)
              THEN resolve_string_diagnoses_skipping(Tail(xs),
                       SetItem(acc, x.name, Get(diagnosis_funcs, x.name)))
              ELSE resolve_string_diagnoses_skipping(Tail(xs), acc)
         ELSE resolve_string_diagnoses_skipping(Tail(xs), SetItem(acc, x.name, x.fn))

\* The generator resolve_string_diagnoses consumed by dict(): the pairs are
\* inserted one by one until a bare name is not in the registry.
RECURSIVE resolve_string_diagnoses(_, _)
resolve_string_diagnoses(xs, acc) ==
    IF xs = <<>> THEN Resolved(acc)
    ELSE LET x == Head(xs) IN
         IF x.isstr
         THEN IF HasKey(diagnosis_funcs, x.name)
              THEN resolve_string_diagnoses(Tail(xs),
                       SetItem(acc, x.name, Get(diagnosis_funcs, x.name)))
              ELSE UnknownDiagnosis(x.name)
         ELSE resolve_string_diagnoses(Tail(xs), SetItem(acc, x.name, x.fn))

_resolve_diagnoses(arg) ==
    IF arg.kind = "mapping" THEN Resolved(arg.items)
    ELSE IF arg.kind = "none" THEN NotIterable
    ELSE IF arg.kind = "str"
         THEN resolve_string_diagnoses(<<BareName(arg.name)>>, <<>>)
         ELSE resolve_string_diagnoses(arg.items, <<>>)

\* ------------------------------------------------------ the packages argument
ListArg(l) == [isstr |-> FALSE, str |-> <<>>, list |-> l]
StringArg(s) == [isstr |-> TRUE, str |-> s, list |-> <<>>]

NoFile == <<"<no file>">>
\* the one path of the model's file system that may name an existing file
FilePath == <<"f">>

\* fs is the content of the file at FilePath, or NoFile
isfile(path, fs) == path = FilePath /\ fs # NoFile

_resolve_packages(pkgsArg, fs) ==
    IF pkgsArg.isstr
    THEN IF isfile(pkgsArg.str, fs) THEN readlines(fs) ELSE split(pkgsArg.str)
    ELSE pkgsArg.list


\* --------------------------------------------------- requirements and pip
Digits == <<"0", "1", "2", "3", "4", "5", "6", "7", "8", "9">>
IsDigit(c) == \E k \in 1..10 : Digits[k] = c
DigitVal(c) == (CHOOSE k \in 1..10 : Digits[k] = c) - 1

RECURSIVE ToInt(_, _)
ToInt(s, acc) == IF s = <<>> THEN acc ELSE ToInt(Tail(s), 10 * acc + DigitVal(Head(s)))

RECURSIVE LStrip(_)
LStrip(s) == IF s # <<>> /\ Head(s) \in Whitespace THEN LStrip(Tail(s)) ELSE s
RECURSIVE RStrip(_)
RStrip(s) ==
    IF s # <<>> /\ s[Len(s)] \in Whitespace THEN RStrip(SubSeq(s, 1, Len(s) - 1)) ELSE s
\* str.strip()
strip(s) == RStrip(LStrip(s))

\* length of the project name that starts a requirement string
RECURSIVE NameLen(_)
NameLen(s) ==
    IF s = <<>> \/ Head(s) \in Whitespace \cup {"<"} THEN 0 ELSE 1 + NameLen(Tail(s))

\* A requirement string as pkg_resources and pip read it: a project name,
\* then nothing or "<" and a version number.
Requirement(p) ==
    LET s == strip(p)
        n == NameLen(s)
        rest == SubSeq(s, n + 1, Len(s))
    IN  IF s = <<>> THEN [error |-> "ValueError", name |-> <<>>, below |-> <<>>]
        ELSE IF n = 0 THEN [error |-> "InvalidRequirement", name |-> <<>>, below |-> <<>>]
        ELSE IF rest = <<>> THEN [error |-> "none", name |-> SubSeq(s, 1, n), below |-> <<>>]
        ELSE IF /\ Head(rest) = "<"
                /\ Len(rest) > 1
                /\ \A k \in 2..Len(rest) : IsDigit(rest[k])
             THEN [error |-> "none", name |-> SubSeq(s, 1, n), below |-> Tail(rest)]
             ELSE [error |-> "InvalidRequirement", name |-> <<>>, below |-> <<>>]

\* In the model every distribution exists in one version only.
DistVersion == <<"1">>
Satisfied(req) == req.below = <<>> \/ ToInt(DistVersion, 0) < ToInt(req.below, 0)

\* pkg_resources.get_distribution(p): the distribution, DistributionNotFound,
\* or another error. ws is the working set of pkg_resources, the names of the
\* distributions it has found since the interpreter started: these are
\* answered from the working set, installed or not any more. inst is what the
\* environment of the interpreter has installed now: it is searched for a
\* distribution that meets the requirement when the name is not in ws.
get_distribution(p, ws, inst) ==
    LET req == Requirement(p) IN
    IF req.error # "none" THEN req.error
    ELSE IF req.name \in ws
         THEN IF Satisfied(req) THEN "found" ELSE "VersionConflict"
    ELSE IF req.name \in inst /\ Satisfied(req) THEN "found"
    ELSE "DistributionNotFound"

\* the working set after get_distribution(p): a distribution that was found
\* has been added to it
working_set_after(p, ws, inst) ==
    IF get_distribution(p, ws, inst) = "found" THEN ws \cup {Requirement(p).name} ELSE ws

\* is_package_installed: "True", "False", or the name of the error it lets through
is_package_installed(p, ws, inst) ==
    LET r == get_distribution(p, ws, inst) IN
    IF r = "found" THEN "True"
    ELSE IF r = "DistributionNotFound" THEN "False"
    ELSE r

\* How one run of a pip subprocess can end: exit status 0, a non-zero exit
\* status, or the executable cannot be started (OSError from subprocess.run).
PipOutcomes == {"ok", "nonzero", "oserror"}

\* environments: e1 is the one of the running interpreter
EnvIds == {"e1", "e2"}

\* pip install p in environment env (exit 0 only for a requirement pip can meet)
PipInstallOutcomes(p) ==
    LET req == Requirement(p) IN
    IF req.error = "none" /\ Satisfied(req) THEN PipOutcomes ELSE {"nonzero", "oserror"}

AfterPipInstall(inst, env, p, outcome) ==
    IF outcome = "ok"
    THEN [inst EXCEPT ![env] = @ \cup {Requirement(p).name}]
    ELSE inst

\* pip uninstall -y p: the distribution is found by name, the version
\* specifier is not looked at
PipUninstallOutcomes(p) ==
    IF Requirement(p).error = "none" THEN PipOutcomes ELSE {"nonzero", "oserror"}

AfterPipUninstall(inst, env, p, outcome) ==
    IF outcome = "ok"
    THEN [inst EXCEPT ![env] = @ \ {Requirement(p).name}]
    ELSE inst

\* install_package: the error it raises, or "none".
\* testEnv is DFLT_TEST_ENV: "None" when VIRTUAL_ENV was unset at import.
install_package_raises(testEnv, outcome) ==
    IF testEnv = "None" THEN "TypeError"            \* os.path.join(None, ...)
    ELSE IF outcome = "oserror" THEN "FileNotFoundError"
    ELSE "none"                                     \* CalledProcessError is passed

\* the subprocess.run of the finally clause (no check=True)
uninstall_raises(outcome) == IF outcome = "oserror" THEN "FileNotFoundError" ELSE "none"

\* the condition of the uninstall step with the test of the lease inverted
needs_uninstall_inverted(install_pkg_if_not_installed, pkg_was_in_environment) ==
    install_pkg_if_not_installed /\ pkg_was_in_environment

\* no uninstall step at all
needs_uninstall_never(install_pkg_if_not_installed, pkg_was_in_environment) == FALSE

\* an uninstall step that does not look at install_pkg_if_not_installed
needs_uninstall_unasked(install_pkg_if_not_installed, pkg_was_in_environment) ==
    ~pkg_was_in_environment

\* line 461: the condition of the uninstall step
needs_uninstall(install_pkg_if_not_installed, pkg_was_in_environment) ==
    install_pkg_if_not_installed /\ ~pkg_was_in_environment


\* ------------------------------------------------- the diagnosis functions
Returns(v) == [kind |-> "return", val |-> v]
\* an exception that `except Exception` catches
Raises(e) == [kind |-> "raise", val |-> <<"exc", e>>]
\* SystemExit, KeyboardInterrupt: a BaseException that is not an Exception
Exits(e) == [kind |-> "exit", val |-> <<"exc", e>>]

None == <<"None">>
Obj(f, p) == <<"obj", f, p>>

\* len(pkg_name)
len(p) == Returns(<<"int", Len(p)>>)

\* int(pkg_name)
int(p) ==
    LET s == strip(p) IN
    IF s # <<>> /\ \A k \in 1..Len(s) : IsDigit(s[k])
    THEN Returns(<<"int", ToInt(s, 0)>>)
    ELSE Raises("ValueError")

\* how __import__(pkg_name) can end: the module, ImportError (the module or
\* something it imports is not found), or whatever the code of the package
\* raises while it is run
ImportOutcomes == {"module", "ImportError", "Exception", "SystemExit"}

\* lines 145-149: only ImportError gives None
import_and_diagnose(p, imported) ==
    CASE imported = "module" -> Returns(Obj("run_pkg_diagnosis", p))
      [] imported = "ImportError" -> Returns(None)
      [] imported = "Exception" -> Raises("Exception")
      [] imported = "SystemExit" -> Exits("SystemExit")

\* run_pkg_diagnosis: __import__ runs the code of the package, which may do
\* anything; ImportError gives None
run_pkg_diagnosis(p) == {import_and_diagnose(p, imported) : imported \in ImportOutcomes}

\* run_folder_diagnosis: None when the distribution is not found
run_folder_diagnosis(p, ws, inst) ==
    LET r == get_distribution(p, ws, inst) IN
    IF r = "DistributionNotFound" THEN {Returns(None)}
    ELSE IF r = "found" THEN {Returns(Obj("run_folder_diagnosis", p)), Raises("OSError")}
    ELSE {Raises(r)}

\* lines 200-207: doctest.testmod is given the name, a str, where it wants a
\* module: it raises TypeError, which `except Exception` catches
testmod(name) == Raises("TypeError")

\* lines 210-213: discovery raises ImportError when the distribution has no
\* folder of its name
unittest_run(folder_exists) ==
    IF folder_exists THEN Returns(<<"obj", "unittest_results">>) ELSE Raises("ImportError")

\* lines 222-246: the python of virtual_env runs pytest; subprocess.run is
\* called without check, so a non-zero exit is no exception
pytest_run(virtual_env, outcome) ==
    IF virtual_env = "None" THEN Raises("TypeError")
    ELSE IF outcome = "oserror" THEN Raises("FileNotFoundError")
    ELSE Returns(<<"obj", "pytest_results">>)

\* line 247: `subprocess.CalledProcessError or Exception` is the class
\* subprocess.CalledProcessError
pytest_caught(e) == e = "CalledProcessError"

\* run_pkg_tests(p, virtual_env), lines 192-253: None when the distribution is
\* not found; when it is found, what the unittest sub-probe raises, or what
\* the pytest sub-probe raises and line 247 does not catch, or the results
run_pkg_tests(p, ws, inst, virtual_env) ==
    LET r == get_distribution(p, ws, inst) IN
    IF r = "DistributionNotFound" THEN {Returns(None)}
    ELSE IF r # "found" THEN {Raises(r)}
    ELSE UNION {
        LET u == unittest_run(folder_exists) IN
        IF u.kind = "raise" THEN {u}
        ELSE {LET o == pytest_run(virtual_env, outcome) IN
              IF o.kind = "return" \/ pytest_caught(o.val[2])
              THEN Returns(Obj("run_pkg_tests", p))
              ELSE o : outcome \in PipOutcomes}
        : folder_exists \in BOOLEAN}

\* the two probes of the package index. json_package_info imports requests
\* (line 273) and makes a network call.
json_package_info(p) ==
    {Returns(Obj("json_package_info", p)), Raises("ConnectionError"),
     Raises("ModuleNotFoundError")}
\* dflt_json_info_extractor imports dol (line 280), calls json_package_info
\* and extracts: len(None) raises TypeError when the metadata has no releases
\* (line 297), releases[None] raises KeyError when it has no version (line 299)
dflt_json_info_extractor(p) ==
    {Returns(Obj("dflt_json_info_extractor", p)), Raises("ModuleNotFoundError"),
     Raises("ConnectionError"), Raises("TypeError"), Raises("KeyError")}

\* the functions that look the distribution up with pkg_resources
LooksUpDistribution(f) == f \in {"run_folder_diagnosis", "run_pkg_tests"}

\* the ways the call f(p) can end; ws is the working set of pkg_resources,
\* inst is what the environment of the interpreter has installed, and
\* virtual_env is DFLT_TEST_ENV, the default of run_pkg_tests
Call(f, p, ws, inst, virtual_env) ==
    CASE f = "len" -> {len(p)}
      [] f = "int" -> {int(p)}
      [] f = "run_pkg_diagnosis" -> run_pkg_diagnosis(p)
      [] f = "run_folder_diagnosis" -> run_folder_diagnosis(p, ws, inst)
      [] f = "run_pkg_tests" -> run_pkg_tests(p, ws, inst, virtual_env)
      [] f = "json_package_info" -> json_package_info(p)
      [] f = "dflt_json_info_extractor" -> dflt_json_info_extractor(p)

\* line 438: what generate_diagnoses catches
caught(outcome) == outcome.kind = "raise"

\* ----------------------------------------------------------------- inputs
SeqsUpTo(S, n) == UNION {[1..k -> S] : k \in 0..n}

Names == {<<"a">>, <<"b">>}
\* what a caller may give as one package: a name, or a name with a version
PkgStrings == Names \cup {<<"a", "<", "1">>}

RECURSIVE Join(_, _)
Join(l, sep) ==
    IF l = <<>> THEN <<>>
    ELSE IF Len(l) = 1 THEN l[1]
    ELSE l[1] \o sep \o Join(Tail(l), sep)

RECURSIVE Lines(_)
Lines(l) == IF l = <<>> THEN <<>> ELSE l[1] \o <<"\n">> \o Lines(Tail(l))

NameLists == SeqsUpTo(Names, MaxPkgs) \ {<<>>}

\* the pkgs argument with the file system it is given in
PkgsInputs ==
    {<<ListArg(l), NoFile>> : l \in SeqsUpTo(PkgStrings, MaxPkgs)}
    \cup {<<StringArg(Join(l, <<" ">>)), NoFile>> : l \in NameLists}
    \cup {<<StringArg(FilePath), Lines(l)>> : l \in NameLists}

\* the diagnoses arguments of the runs: a mapping as in the documentation, a
\* mapping with a function that raises, a mapping of two names, one of them no
\* registered name, iterables mixing registered names, unknown names and pairs, one name
DiagInputs ==
    {MappingArg(<< <<"length", "len">> >>),
     MappingArg(<< <<"length", "len">>, <<"number", "int">> >>),
     MappingArg(<< <<"bogus", "len">>, <<"length", "len">> >>),
     IterArg(<<>>),
     IterArg(<<BareName("pkg_diagnosis_result"), Pair("length", "len")>>),
     IterArg(<<Pair("number", "int"), BareName("pkg_folder_diagnosis_result")>>),
     IterArg(<<BareName("json_info"), BareName("bogus")>>),
     IterArg(<<BareName("bogus"), Pair("length", "len")>>),
     StrArg("pkg_folder_diagnosis_result"),
     StrArg("bogus"),
     NoneArg}

\* the elements of the iterables given to _resolve_diagnoses alone
ResolveItems ==
    {BareName("json_info"), BareName("pkg_diagnosis_result"), BareName("all_json_info"),
     BareName("bogus"), Pair("length", "len"), Pair("json_info", "len")}

ResolveInputs ==
    {IterArg(xs) : xs \in SeqsUpTo(ResolveItems, MaxDiagnoses)}
    \cup {StrArg(n) : n \in {"json_info", "bogus"}}
    \cup {MappingArg(<< <<"bogus", "len">> >>)}

\* where VIRTUAL_ENV pointed at import and where the pip of PATH lives
EnvInputs == ({"None"} \cup EnvIds) \X EnvIds

\* what is installed when the run starts; the second environment is a fresh one
InstalledInputs == {f \in [EnvIds -> SUBSET Names] : f["e2"] = {}}

\* the working set when a probe is called alone: what the interpreter found
\* installed when it started, and what it has found since, uninstalled or not
WorkingSetInputs(inst) == {inst["e1"] \cup found : found \in SUBSET Names}

\* ------------------------------------------------------------------ state
VARIABLES
    entry,        \* the function called: "diagnose_pkgs" or "diagnose_pkg"
    install_pkg_if_not_installed,
    pkgsArg,      \* the pkgs argument
    diagArg,      \* the diagnoses argument
    fs,           \* content of the file at FilePath, or NoFile
    testEnv,      \* DFLT_TEST_ENV: "None" or the environment of VIRTUAL_ENV
    pathEnv,      \* the environment of the pip found on PATH
    installed,    \* environment -> names of its installed distributions
    installed_before,  \* installed, as it was when diagnose_pkg was entered
    working_set,  \* names of the distributions pkg_resources has found so far
    pc,           \* position in the code
    pkgs,         \* the resolved package list
    diagnoses,    \* the resolved diagnoses: ordered name -> function
    i,            \* index in pkgs of the package being diagnosed
    j,            \* index in diagnoses of the next diagnosis
    pkg_was_in_environment,
    d,            \* result of the package being diagnosed: ordered name -> value
    store,        \* the result store: ordered package -> result
    exc,          \* the exception in flight: <<type, argument>>, or NoExc
    pip_result,   \* how the last pip subprocess of this diagnose_pkg ended, or "-"
    log,          \* the calls made so far: <<what, package index, name, outcome>>
    call,         \* a function called on its own: its name and arguments, or NoCall
    at,           \* position in the code of that function
    locals,       \* its local variables
    ret           \* how it ended: Returns(v), Raises(e), or Pending

vars == <<entry, install_pkg_if_not_installed, pkgsArg, diagArg, fs, testEnv, pathEnv,
          installed, installed_before, pc, pkgs, diagnoses, i, j,
          pkg_was_in_environment, d, store, exc, pip_result, log, working_set,
          call, at, locals, ret>>

\* the variables of the single call
frame == <<call, at, locals, ret>>

\* the variables of diagnose_pkgs and diagnose_pkg
running == <<entry, install_pkg_if_not_installed, pkgsArg, diagArg, fs, testEnv, pathEnv,
             installed, installed_before, pc, pkgs, diagnoses, i, j,
             pkg_was_in_environment, d, store, exc, pip_result, log>>

\* those, and the working set of pkg_resources
lifecycle == <<running, working_set>>

inputs == <<entry, install_pkg_if_not_installed, pkgsArg, diagArg, fs, testEnv, pathEnv>>

NoExc == <<"none", "-">>

\* no function is called on its own
NoCall == [fn |-> "-"]
Pending == [kind |-> "pending", val |-> <<>>]
NoFrame ==
    /\ call = NoCall
    /\ at = "-"
    /\ locals = <<>>
    /\ ret = Pending

\* line 404: the loop variable pkg, which diagnose_pkg receives as pkg_name
pkg_name == pkgs[i]

Init ==
    /\ entry \in {"diagnose_pkgs", "diagnose_pkg"}
    /\ \E pin \in PkgsInputs :
         /\ pkgsArg = pin[1]
         /\ fs = pin[2]
         \* diagnose_pkg takes one package name
         /\ entry = "diagnose_pkg" => ~pin[1].isstr /\ Len(pin[1].list) = 1
    /\ install_pkg_if_not_installed \in
           IF entry = "diagnose_pkgs" THEN {TRUE} ELSE BOOLEAN
    /\ diagArg \in DiagInputs
    /\ \E e \in EnvInputs : testEnv = e[1] /\ pathEnv = e[2]
    /\ installed \in InstalledInputs
    /\ installed_before = installed
    /\ working_set = installed["e1"]
    /\ pc = IF entry = "diagnose_pkgs" THEN "call" ELSE "begin"
    /\ pkgs = IF entry = "diagnose_pkgs" THEN <<>> ELSE pkgsArg.list
    /\ diagnoses = <<>>
    /\ i = 1
    /\ j = 1
    /\ pkg_was_in_environment = FALSE
    /\ d = <<>>
    /\ store = <<>>
    /\ exc = NoExc
    /\ pip_result = "-"
    /\ log = <<>>
    /\ NoFrame

\* ---------------------------------------------------------------- actions
Logged(what, name, outcome) == Append(log, <<what, i, name, outcome>>)

\* diagnose_pkgs, lines 398-403: the arguments are resolved, the store is made
diagnose_pkgs_resolve ==
    /\ pc = "call"
    /\ LET r == _resolve_diagnoses(diagArg) IN
       /\ pkgs' = _resolve_packages(pkgsArg, fs)
       /\ IF r.raised
          THEN /\ exc' = <<r.error, r.name>>
               /\ pc' = "raised"
               /\ UNCHANGED diagnoses
          ELSE /\ diagnoses' = r.value
               /\ pc' = "loop"
               /\ UNCHANGED exc
    /\ store' = <<>>
    /\ UNCHANGED <<frame, inputs, working_set, installed, installed_before, i, j, pkg_was_in_environment, d,
                   pip_result, log>>

\* diagnose_pkgs, line 404: the next package of the list, or the return
diagnose_pkgs_next ==
    /\ pc = "loop"
    /\ pc' = IF i <= Len(pkgs) THEN "begin" ELSE "returned"
    /\ UNCHANGED <<frame, inputs, working_set, installed, installed_before, pkgs, diagnoses, i, j,
                   pkg_was_in_environment, d, store, exc, pip_result, log>>

\* diagnose_pkg, line 483
diagnose_pkg_begin ==
    /\ pc = "begin"
    /\ LET r == _resolve_diagnoses(IF entry = "diagnose_pkg" THEN diagArg
                                   ELSE MappingArg(diagnoses)) IN
       IF r.raised
       THEN /\ exc' = <<r.error, r.name>>
            /\ pc' = "raised"
            /\ UNCHANGED diagnoses
       ELSE /\ diagnoses' = r.value
            /\ pc' = "enter"
            /\ UNCHANGED exc
    /\ d' = <<>>
    /\ j' = 1
    /\ installed_before' = installed
    /\ UNCHANGED <<frame, inputs, working_set, installed, pkgs, i, pkg_was_in_environment, store, pip_result,
                   log>>

\* manage_installation, lines 448-451: the installation check
manage_installation_enter ==
    /\ pc = "enter"
    /\ IF install_pkg_if_not_installed
       THEN LET c == is_package_installed(pkg_name, working_set, installed["e1"]) IN
            /\ log' = Logged("check", "-", c)
            /\ working_set' = working_set_after(pkg_name, working_set, installed["e1"])
            /\ pkg_was_in_environment' = (c = "True")
            /\ pc' = IF c = "True" THEN "body" ELSE IF c = "False" THEN "install"
                     ELSE "finally"
            /\ exc' = IF c \in {"True", "False"} THEN NoExc ELSE <<c, "-">>
       ELSE /\ pkg_was_in_environment' = FALSE
            /\ pc' = "body"
            /\ exc' = NoExc
            /\ UNCHANGED <<log, working_set>>
    /\ UNCHANGED <<frame, inputs, installed, installed_before, pkgs, diagnoses, i, j, d, store,
                   pip_result>>

\* manage_installation, line 455, and install_package, lines 106-118
install_package ==
    /\ pc = "install"
    /\ \E o \in PipInstallOutcomes(pkg_name) :
         LET e == install_package_raises(testEnv, o) IN
         /\ installed' = IF testEnv = "None" THEN installed
                         ELSE AfterPipInstall(installed, testEnv, pkg_name, o)
         /\ pip_result' = IF testEnv = "None" THEN "not run" ELSE o
         /\ exc' = IF e = "none" THEN NoExc ELSE <<e, "-">>
         /\ pc' = IF e = "none" THEN "body" ELSE "finally"
         /\ log' = Logged("install", "-", IF testEnv = "None" THEN "not run" ELSE o)
    /\ UNCHANGED <<frame, inputs, working_set, installed_before, pkgs, diagnoses, i, j,
                   pkg_was_in_environment, d, store>>

\* a diagnosis that raised recorded with the value None
recorded_none_on_error(dd, name, o) ==
    IF o.kind = "return" THEN SetItem(dd, name, o.val)
    ELSE IF o.kind = "raise" THEN SetItem(dd, name, None)
    ELSE dd

\* lines 437 and 486: dict() records the pair that generate_diagnoses yields
recorded(dd, name, o) == IF o.kind = "return" THEN SetItem(dd, name, o.val) ELSE dd

\* generate_diagnoses, lines 435-439: one turn of the loop
generate_diagnoses_step ==
    /\ pc = "body"
    /\ j <= Len(diagnoses)
    /\ LET name == diagnoses[j][1] IN
       \E o \in Call(diagnoses[j][2], pkg_name, working_set, installed["e1"], testEnv) :
         /\ d' = recorded(d, name, o)
         /\ log' = IF caught(o)
                   THEN Logged("diagnosis", name, o.kind)
                            \o << <<"error_logger", i, name, o.val[2]>> >>
                   ELSE Logged("diagnosis", name, o.kind)
         /\ exc' = IF o.kind = "return" \/ caught(o) THEN NoExc ELSE <<o.val[2], "-">>
         /\ pc' = IF o.kind = "return" \/ caught(o) THEN "body" ELSE "finally"
    /\ j' = j + 1
    /\ working_set' = IF LooksUpDistribution(diagnoses[j][2])
                      THEN working_set_after(pkg_name, working_set, installed["e1"])
                      ELSE working_set
    /\ UNCHANGED <<frame, inputs, installed, installed_before, pkgs, diagnoses, i,
                   pkg_was_in_environment, store, pip_result>>

\* generate_diagnoses is exhausted: the with block of line 486 is left
generate_diagnoses_end ==
    /\ pc = "body"
    /\ j > Len(diagnoses)
    /\ pc' = "finally"
    /\ UNCHANGED <<frame, inputs, working_set, installed, installed_before, pkgs, diagnoses, i, j,
                   pkg_was_in_environment, d, store, exc, pip_result, log>>

\* manage_installation, lines 459-464: the finally clause
manage_installation_exit ==
    /\ pc = "finally"
    /\ IF needs_uninstall(install_pkg_if_not_installed, pkg_was_in_environment)
       THEN \E o \in PipUninstallOutcomes(pkg_name) :
              LET e == uninstall_raises(o) IN
              /\ installed' = AfterPipUninstall(installed, pathEnv, pkg_name, o)
              /\ log' = Logged("uninstall", "-", o)
              /\ pip_result' = o
              /\ exc' = IF e # "none" THEN <<e, "-">> ELSE exc
              /\ pc' = IF e # "none" \/ exc # NoExc THEN "raised" ELSE "exit"
       ELSE /\ pc' = IF exc # NoExc THEN "raised" ELSE "exit"
            /\ UNCHANGED <<installed, log, exc, pip_result>>
    /\ UNCHANGED <<frame, inputs, working_set, installed_before, pkgs, diagnoses, i, j,
                   pkg_was_in_environment, d, store>>

\* diagnose_pkg, line 488, and diagnose_pkgs, line 405
diagnose_pkg_return ==
    /\ pc = "exit"
    /\ IF entry = "diagnose_pkgs"
       THEN /\ store' = SetItem(store, pkg_name, d)
            /\ i' = i + 1
            /\ pc' = "loop"
       ELSE /\ pc' = "returned"
            /\ UNCHANGED <<store, i>>
    /\ pip_result' = "-"
    /\ UNCHANGED <<frame, inputs, working_set, installed, installed_before, pkgs, diagnoses, j,
                   pkg_was_in_environment, d, exc, log>>

Next ==
    \/ diagnose_pkgs_resolve
    \/ diagnose_pkgs_next
    \/ diagnose_pkg_begin
    \/ manage_installation_enter
    \/ install_package
    \/ generate_diagnoses_step
    \/ generate_diagnoses_end
    \/ manage_installation_exit
    \/ diagnose_pkg_return

Spec == Init /\ [][Next]_vars

\* The resolution of the arguments alone, on many diagnoses arguments.
InitResolve ==
    /\ entry \in {"diagnose_pkgs", "diagnose_pkg"}
    /\ pkgsArg = ListArg(<< <<"a">> >>)
    /\ fs = NoFile
    /\ install_pkg_if_not_installed = TRUE
    /\ diagArg \in ResolveInputs
    /\ testEnv = "e1"
    /\ pathEnv = "e1"
    /\ installed = [e \in EnvIds |-> {}]
    /\ installed_before = installed
    /\ working_set = installed["e1"]
    /\ pc = IF entry = "diagnose_pkgs" THEN "call" ELSE "begin"
    /\ pkgs = IF entry = "diagnose_pkgs" THEN <<>> ELSE pkgsArg.list
    /\ diagnoses = <<>>
    /\ i = 1
    /\ j = 1
    /\ pkg_was_in_environment = FALSE
    /\ d = <<>>
    /\ store = <<>>
    /\ exc = NoExc
    /\ pip_result = "-"
    /\ log = <<>>
    /\ NoFrame

NextResolve ==
    \/ diagnose_pkgs_resolve
    \/ diagnose_pkg_begin

SpecResolve == InitResolve /\ [][NextResolve]_vars

\* diagnose_pkg on iterables of diagnoses that give a name more than once
RepeatedItems ==
    {BareName("pkg_folder_diagnosis_result"), Pair("pkg_folder_diagnosis_result", "len"),
     Pair("length", "len"), Pair("length", "int")}

RepeatedInputs == {IterArg(xs) : xs \in SeqsUpTo(RepeatedItems, MaxDiagnoses)}

InitRepeated ==
    /\ entry = "diagnose_pkg"
    /\ pkgsArg \in {ListArg(<<n>>) : n \in Names}
    /\ fs = NoFile
    /\ install_pkg_if_not_installed \in BOOLEAN
    /\ diagArg \in RepeatedInputs
    /\ testEnv = "e1"
    /\ pathEnv = "e1"
    /\ installed \in InstalledInputs
    /\ installed_before = installed
    /\ working_set = installed["e1"]
    /\ pc = "begin"
    /\ pkgs = pkgsArg.list
    /\ diagnoses = <<>>
    /\ i = 1
    /\ j = 1
    /\ pkg_was_in_environment = FALSE
    /\ d = <<>>
    /\ store = <<>>
    /\ exc = NoExc
    /\ pip_result = "-"
    /\ log = <<>>
    /\ NoFrame

NextRepeated ==
    \/ diagnose_pkg_begin
    \/ manage_installation_enter
    \/ install_package
    \/ generate_diagnoses_step
    \/ generate_diagnoses_end
    \/ manage_installation_exit
    \/ diagnose_pkg_return

SpecRepeated == InitRepeated /\ [][NextRepeated]_vars

TypeOK ==
    /\ pc \in {"call", "loop", "begin", "enter", "install", "body", "finally", "exit",
               "returned", "raised", "idle"}
    /\ installed \in [EnvIds -> SUBSET Names]
    /\ i \in 1..(Len(pkgs) + 1)
    /\ pc \in {"begin", "enter", "install", "body", "finally", "exit"} => i <= Len(pkgs)

\* ------------------------------------------------ functions called alone
\* diagnose_pkgs and diagnose_pkg are not running
Idle ==
    /\ entry = "-"
    /\ install_pkg_if_not_installed = TRUE
    /\ pkgsArg = ListArg(<<>>)
    /\ diagArg = IterArg(<<>>)
    /\ fs = NoFile
    /\ pathEnv = "e1"
    /\ installed_before = installed
    /\ pc = "idle"
    /\ pkgs = <<>>
    /\ diagnoses = <<>>
    /\ i = 1
    /\ j = 1
    /\ pkg_was_in_environment = FALSE
    /\ d = <<>>
    /\ store = <<>>
    /\ exc = NoExc
    /\ pip_result = "-"
    /\ log = <<>>

\* nothing is installed, and diagnose_pkgs and diagnose_pkg are not running
IdleWorld ==
    /\ installed = [e \in EnvIds |-> {}]
    /\ working_set = {}
    /\ testEnv = "e1"
    /\ Idle

\* ------------------------------------------------------------ run_pkg_tests
\* run_pkg_tests(pkg_name, virtual_env): virtual_env defaults to DFLT_TEST_ENV
InitTests ==
    /\ installed \in InstalledInputs
    /\ working_set \in WorkingSetInputs(installed)
    /\ testEnv \in {"None"} \cup EnvIds
    /\ Idle
    /\ \E p \in PkgStrings :
           call = [fn |-> "run_pkg_tests", pkg_name |-> p, virtual_env |-> testEnv]
    /\ at = "get_distribution"
    /\ locals = [test_diagnoses |-> <<>>, probes |-> <<>>]
    /\ ret = Pending

\* the sub-probe `probe` ended with `outcome`
Probed(probe, outcome) == Append(locals.probes, <<probe, outcome>>)

\* lines 193-197, 252-253
run_pkg_tests_get_distribution ==
    /\ call.fn = "run_pkg_tests"
    /\ at = "get_distribution"
    /\ LET r == get_distribution(call.pkg_name, working_set, installed["e1"]) IN
       IF r = "found"
       THEN at' = "doctest" /\ UNCHANGED ret
       ELSE /\ at' = "done"
            /\ ret' = IF r = "DistributionNotFound" THEN Returns(None) ELSE Raises(r)
    /\ working_set' = working_set_after(call.pkg_name, working_set, installed["e1"])
    /\ UNCHANGED <<running, call, locals>>

\* lines 200-207
run_pkg_tests_doctest ==
    /\ call.fn = "run_pkg_tests"
    /\ at = "doctest"
    /\ LET o == testmod(call.pkg_name) IN
       locals' = [test_diagnoses |->
                      IF o.kind = "return"
                      THEN SetItem(locals.test_diagnoses, "doctest_results", o.val)
                      ELSE locals.test_diagnoses,
                  probes |-> Probed("doctest", o.kind)]
    /\ at' = "unittest"
    /\ UNCHANGED <<lifecycle, call, ret>>

\* lines 210-218: no try around the unittest sub-probe
run_pkg_tests_unittest ==
    /\ call.fn = "run_pkg_tests"
    /\ at = "unittest"
    /\ \E folder_exists \in BOOLEAN :
         LET o == unittest_run(folder_exists) IN
         /\ locals' = [test_diagnoses |->
                           IF o.kind = "return"
                           THEN SetItem(locals.test_diagnoses, "unittest_results", o.val)
                           ELSE locals.test_diagnoses,
                       probes |-> Probed("unittest", o.kind)]
         /\ IF o.kind = "return"
            THEN at' = "pytest" /\ UNCHANGED ret
            ELSE at' = "done" /\ ret' = o
    /\ UNCHANGED <<lifecycle, call>>

\* lines 220-250
run_pkg_tests_pytest ==
    /\ call.fn = "run_pkg_tests"
    /\ at = "pytest"
    /\ \E outcome \in PipOutcomes :
         LET o == pytest_run(call.virtual_env, outcome)
             td == IF o.kind = "return"
                   THEN SetItem(locals.test_diagnoses, "pytest_results", o.val)
                   ELSE locals.test_diagnoses
         IN
         /\ locals' = [test_diagnoses |-> td, probes |-> Probed("pytest", o.kind)]
         /\ ret' = IF o.kind = "return" \/ pytest_caught(o.val[2])
                   THEN Returns(td)
                   ELSE o
    /\ at' = "done"
    /\ UNCHANGED <<lifecycle, call>>

NextTests ==
    \/ run_pkg_tests_get_distribution
    \/ run_pkg_tests_doctest
    \/ run_pkg_tests_unittest
    \/ run_pkg_tests_pytest

SpecTests == InitTests /\ [][NextTests]_vars

\* ----------------------------------------- the three probes of the package
\* run_folder_diagnosis, run_pkg_diagnosis and run_pkg_tests, each called alone
InitProbes ==
    \/ InitTests
    \/ /\ installed \in InstalledInputs
       /\ working_set \in WorkingSetInputs(installed)
       /\ testEnv = "e1"
       /\ Idle
       /\ \/ \E p \in PkgStrings :
                 call = [fn |-> "run_folder_diagnosis", pkg_name |-> p]
          \/ \E p \in PkgStrings, imported \in ImportOutcomes :
                 call = [fn |-> "run_pkg_diagnosis", pkg_name |-> p,
                         imported |-> imported]
       /\ at = "call"
       /\ locals = <<>>
       /\ ret = Pending

\* lines 171-179
run_folder_diagnosis_call ==
    /\ call.fn = "run_folder_diagnosis"
    /\ at = "call"
    /\ ret' \in run_folder_diagnosis(call.pkg_name, working_set, installed["e1"])
    /\ working_set' = working_set_after(call.pkg_name, working_set, installed["e1"])
    /\ at' = "done"
    /\ UNCHANGED <<running, call, locals>>

\* lines 145-149
run_pkg_diagnosis_call ==
    /\ call.fn = "run_pkg_diagnosis"
    /\ at = "call"
    /\ ret' = import_and_diagnose(call.pkg_name, call.imported)
    /\ at' = "done"
    /\ UNCHANGED <<lifecycle, call, locals>>

NextProbes ==
    \/ run_folder_diagnosis_call
    \/ run_pkg_diagnosis_call
    \/ run_pkg_tests_get_distribution
    \/ run_pkg_tests_doctest
    \/ run_pkg_tests_unittest
    \/ run_pkg_tests_pytest

SpecProbes == InitProbes /\ [][NextProbes]_vars

\* ------------------------------------------------- dflt_json_info_extractor
Str(x) == <<"str", x>>
EmptyTuple == <<"tuple">>

\* m without its key
RECURSIVE DelItem(_, _)
DelItem(m, key) ==
    IF m = <<>> THEN <<>>
    ELSE IF Head(m)[1] = key THEN DelItem(Tail(m), key)
    ELSE <<Head(m)>> \o DelItem(Tail(m), key)

\* dol's path_get with on_error=return_none_on_error: the value found by
\* following the keys of the path, None when a key is missing
RECURSIVE path_get(_, _)
path_get(obj, path) ==
    IF path = <<>> THEN obj
    ELSE IF HasKey(obj, Head(path)) THEN path_get(Get(obj, Head(path)), Tail(path))
    ELSE None

\* lines 284-292: the paths, as their dotted names and their keys
ExtractedPaths ==
    << <<"info.description", <<"info", "description">> >>,
       <<"info.summary", <<"info", "summary">> >>,
       <<"info.author", <<"info", "author">> >>,
       <<"info.version", <<"info", "version">> >>,
       <<"info.project_urls", <<"info", "project_urls">> >>,
       <<"info.home_page", <<"info", "home_page">> >>,
       <<"releases", <<"releases">> >> >>

\* dol's paths_getter: one entry per path, in the order of the paths
paths_getter(paths, obj) ==
    [k \in 1..Len(paths) |-> <<paths[k][1], path_get(obj, paths[k][2])>>]

\* dict.get(key, None)
get_or_none(m, key) == IF HasKey(m, key) THEN Get(m, key) ELSE None

\* lines 295-305, on the metadata that json_package_info returned
extract_json_info(info_dict) ==
    LET d0 == paths_getter(ExtractedPaths, info_dict)
        releases == IF HasKey(d0, "releases") THEN Get(d0, "releases") ELSE EmptyTuple
        d1 == DelItem(d0, "releases")
    IN
    IF releases = None THEN Raises("TypeError")
    ELSE
    LET n == IF releases = EmptyTuple THEN 0 ELSE Len(releases)
        d2 == SetItem(d1, "n_releases", <<"int", n>>)
    IN
    IF n = 0 THEN Returns(d2)
    ELSE IF ~HasKey(releases, Get(d2, "info.version")) THEN Raises("KeyError")
    ELSE
    LET files == Get(releases, Get(d2, "info.version")) IN
    \* lines 299-300: no first entry, or an empty one, adds nothing
    IF files = <<>> \/ files[1] = <<>> THEN Returns(d2)
    ELSE Returns(SetItem(SetItem(d2, "last_release.size", get_or_none(files[1], "size")),
                         "last_relase.upload_time_iso_8601",
                         get_or_none(files[1], "upload_time_iso_8601")))

\* The metadata objects: what the index answers for a package, and the empty
\* mapping that json_package_info returns on a non-200 response.
InfoFields == {"description", "summary", "author", "project_urls", "home_page"}
Versions == {Str("1"), Str("2")}
ReleaseEntries ==
    { << <<"size", <<"int", 7>> >>, <<"upload_time_iso_8601", Str("t")>> >>,
      << <<"size", <<"int", 7>> >> >>,
      <<>> }
ReleaseLists == {<<>>} \cup {<<e>> : e \in ReleaseEntries}

\* a set as a sequence, in some order
RECURSIVE SeqOf(_)
SeqOf(S) ==
    IF S = {} THEN <<>>
    ELSE LET x == CHOOSE y \in S : TRUE IN <<x>> \o SeqOf(S \ {x})

InfoDicts ==
    {[k \in 1..Len(SeqOf(F)) |-> <<SeqOf(F)[k], Str("x")>>] \o v :
        F \in SUBSET InfoFields,
        v \in {<<>>} \cup {<< <<"version", w>> >> : w \in Versions}}
ReleaseDicts ==
    {<<>>} \cup {<< <<w, l>> >> : w \in Versions, l \in ReleaseLists}
MetadataInputs ==
    {i0 \o r0 :
        i0 \in {<<>>} \cup {<< <<"info", x>> >> : x \in InfoDicts},
        r0 \in {<<>>} \cup {<< <<"releases", x>> >> : x \in ReleaseDicts}}

InitExtract ==
    /\ IdleWorld
    /\ \E m \in MetadataInputs :
           call = [fn |-> "dflt_json_info_extractor", info_dict |-> m]
    /\ at = "call"
    /\ locals = <<>>
    /\ ret = Pending

dflt_json_info_extractor_call ==
    /\ call.fn = "dflt_json_info_extractor"
    /\ at = "call"
    /\ ret' = extract_json_info(call.info_dict)
    /\ at' = "done"
    /\ UNCHANGED <<lifecycle, call, locals>>

NextExtract == dflt_json_info_extractor_call

SpecExtract == InitExtract /\ [][NextExtract]_vars

\* --------------------------------------------------- _resolve_store_factory
\* A store_factory argument: a str, or a callable named by its Python name.
FactoryStr(s) == [isstr |-> TRUE, str |-> s, callable |-> "-"]
FactoryCallable(f) == [isstr |-> FALSE, str |-> <<>>, callable |-> f]

\* the factory of a store of JSON files under dirpath
JsonsFactory(dirpath) == <<"Jsons", dirpath>>

\* lines 368-382; dirs is the set of the paths that are existing folders
_resolve_store_factory(store_factory, dirs) ==
    IF store_factory.isstr
    THEN IF store_factory.str = <<"d", "i", "c", "t">> THEN Returns("dict")
         ELSE IF store_factory.str \in dirs THEN Returns(JsonsFactory(store_factory.str))
         ELSE Raises("ValueError")
    ELSE Returns(store_factory.callable)

PathChars == {"d", "i", "c", "t"}
FactoryInputs ==
    {FactoryStr(s) : s \in SeqsUpTo(PathChars, MaxPathLen)}
    \cup {FactoryCallable("dict")}
DirInputs == {{}, {<<"d">>}, {<<"d", "i", "c", "t">>, <<"t", "d">>}}

InitStore ==
    /\ IdleWorld
    /\ \E f \in FactoryInputs, D \in DirInputs :
           call = [fn |-> "_resolve_store_factory", store_factory |-> f, dirs |-> D]
    /\ at = "call"
    /\ locals = <<>>
    /\ ret = Pending

_resolve_store_factory_call ==
    /\ call.fn = "_resolve_store_factory"
    /\ at = "call"
    /\ ret' = _resolve_store_factory(call.store_factory, call.dirs)
    /\ at' = "done"
    /\ UNCHANGED <<lifecycle, call, locals>>

NextStore == _resolve_store_factory_call

SpecStore == InitStore /\ [][NextStore]_vars

\* --------------------------------------------------------------------- main
\* line 656: `for name, _ in diagnosis_funcs` iterates over the keys of the
\* dict and unpacks each key, a str, into two variables, which only a str of
\* two characters allows
unpack_names(keys) ==
    IF \E k \in 1..Len(keys) : Len(keys[k]) # 2
    THEN Raises("ValueError")
    ELSE Returns(keys)

\* the command line: one or more packages, and --diagnoses with one or more
\* names or without the option (None)
CliNames == {"json_info", "all_json_info", "bogus"}
CliDiagnoses ==
    {NoneArg} \cup {IterArg([k \in 1..Len(l) |-> BareName(l[k])]) :
                       l \in SeqsUpTo(CliNames, MaxPkgs) \ {<<>>}}

InitMain ==
    /\ installed \in InstalledInputs
    /\ working_set = installed["e1"]
    /\ testEnv \in {"None"} \cup EnvIds
    /\ Idle
    /\ \E P \in NameLists \ {<<>>}, D \in CliDiagnoses :
           call = [fn |-> "main", packages |-> P, diagnoses |-> D]
    /\ at = "call"
    /\ locals = <<>>
    /\ ret = Pending

\* lines 639-693: the parser is built, the arguments parsed, and
\* diagnose_pkgs(args.packages, args.diagnoses) is called
main_call ==
    /\ call.fn = "main"
    /\ at = "call"
    /\ LET names == unpack_names(Keys(diagnosis_funcs)) IN
       IF names.kind = "raise"
       THEN /\ ret' = names
            /\ at' = "done"
            /\ UNCHANGED <<entry, pkgsArg, diagArg, pc>>
       ELSE /\ entry' = "diagnose_pkgs"
            /\ pkgsArg' = ListArg(call.packages)
            /\ diagArg' = call.diagnoses
            /\ pc' = "call"
            /\ at' = "diagnose_pkgs"
            /\ UNCHANGED ret
    /\ UNCHANGED <<install_pkg_if_not_installed, fs, testEnv, pathEnv, installed,
                   installed_before, pkgs, diagnoses, i, j, pkg_was_in_environment, d,
                   store, exc, pip_result, log, working_set, call, locals>>

NextMain == main_call

SpecMain == InitMain /\ [][NextMain]_vars

\* ------------------------------------------------- the folder-backed store
\* Jsons(dirpath), lines 374-376: d[key] = value writes json.dumps(value) in
\* the file <key>.json of the folder, and d[key] is json.loads of that file.
\* Python values: None, <<"int", n>>, Str(s), <<"list", items>>,
\* <<"tuple", items>>, <<"dict", pairs>> and <<"object">>, any other object.
\* JSON values: <<"null">>, <<"number", n>>, <<"string", s>>,
\* <<"array", items>> and <<"object", pairs>>.
DecimalOf(n) == CASE n = 0 -> "0" [] n = 1 -> "1" [] n = 2 -> "2" [] n = 3 -> "3"

\* json.dumps raises TypeError on a value it cannot serialize
RECURSIVE Serializable(_)
Serializable(v) ==
    CASE v[1] \in {"None", "int", "str"} -> TRUE
      [] v[1] \in {"list", "tuple"} -> \A k \in 1..Len(v[2]) : Serializable(v[2][k])
      [] v[1] = "dict" -> \A k \in 1..Len(v[2]) :
                              /\ v[2][k][1][1] \in {"str", "int"}
                              /\ Serializable(v[2][k][2])
      [] OTHER -> FALSE

\* a number written where the JSON value differs from the Python value
RECURSIVE json_of_numbers_as_strings(_)
json_of_numbers_as_strings(v) ==
    CASE v[1] = "None" -> <<"null">>
      [] v[1] = "int" -> <<"string", DecimalOf(v[2])>>
      [] v[1] = "str" -> <<"string", v[2]>>
      [] v[1] \in {"list", "tuple"} ->
             <<"array", [k \in 1..Len(v[2]) |-> json_of_numbers_as_strings(v[2][k])]>>
      [] v[1] = "dict" ->
             <<"object", [k \in 1..Len(v[2]) |->
                 <<IF v[2][k][1][1] = "int" THEN DecimalOf(v[2][k][1][2]) ELSE v[2][k][1][2],
                   json_of_numbers_as_strings(v[2][k][2])>>]>>

\* json.dumps: a tuple is written as an array, a key that is a number as a string
RECURSIVE json_of(_)
json_of(v) ==
    CASE v[1] = "None" -> <<"null">>
      [] v[1] = "int" -> <<"number", v[2]>>
      [] v[1] = "str" -> <<"string", v[2]>>
      [] v[1] \in {"list", "tuple"} ->
             <<"array", [k \in 1..Len(v[2]) |-> json_of(v[2][k])]>>
      [] v[1] = "dict" ->
             <<"object", [k \in 1..Len(v[2]) |->
                 <<IF v[2][k][1][1] = "int" THEN DecimalOf(v[2][k][1][2]) ELSE v[2][k][1][2],
                   json_of(v[2][k][2])>>]>>

\* json.loads: an array is read as a list, an object as a dict of str keys
RECURSIVE python_of(_)
python_of(x) ==
    CASE x[1] = "null" -> None
      [] x[1] = "number" -> <<"int", x[2]>>
      [] x[1] = "string" -> Str(x[2])
      [] x[1] = "array" -> <<"list", [k \in 1..Len(x[2]) |-> python_of(x[2][k])]>>
      [] x[1] = "object" ->
             <<"dict", [k \in 1..Len(x[2]) |-> <<Str(x[2][k][1]), python_of(x[2][k][2])>>]>>

\* the result mapping of a package, name -> value, as a Python dict
PyDict(m) == <<"dict", [k \in 1..Len(m) |-> <<Str(m[k][1]), m[k][2]>>]>>

\* the file of a key
FileOf(key) == key \o <<".", "j", "s", "o", "n">>

\* The values a diagnosis function can return.
Scalars == {None, <<"int", 0>>, <<"int", 1>>, Str("x")}
ResultValues ==
    Scalars
    \cup {<<"object">>}
    \cup {<<c, s>> : c \in {"list", "tuple"}, s \in SeqsUpTo(Scalars, 1)}
    \cup {<<"dict", <<>> >>}
    \cup {<<"dict", << <<k, v>> >> >> : k \in {Str("total_files"), <<"int", 1>>},
                                      v \in {None, <<"int", 1>>}}
    \cup {<<"list", << <<"tuple", <<>> >> >> >>,
          <<"dict", << <<Str("unittest_results"),
                         <<"dict", << <<Str("total_errors"), <<"int", 2>> >> >> >> >> >> >>}
ResultNames == <<"length", "json_info">>
ResultInputs ==
    {<<>>}
    \cup {<< <<ResultNames[1], v>> >> : v \in ResultValues}
    \cup {<< <<ResultNames[1], v>>, <<ResultNames[2], w>> >> :
             v \in ResultValues, w \in ResultValues}

InitJsons ==
    /\ IdleWorld
    /\ \E key \in PkgStrings \cup {<<"a", "\n">>}, m \in ResultInputs :
           call = [fn |-> "Jsons", key |-> key, value |-> m]
    /\ at = "setitem"
    /\ locals = [files |-> <<>>]
    /\ ret = Pending

\* line 405 on a Jsons store: d[pkg] = diagnose_pkg(pkg, ...)
Jsons_setitem ==
    /\ call.fn = "Jsons"
    /\ at = "setitem"
    /\ IF Serializable(PyDict(call.value))
       THEN /\ locals' = [files |-> SetItem(locals.files, FileOf(call.key),
                                            json_of(PyDict(call.value)))]
            /\ at' = "getitem"
            /\ UNCHANGED ret
       ELSE /\ ret' = Raises("TypeError")
            /\ at' = "done"
            /\ UNCHANGED locals
    /\ UNCHANGED <<lifecycle, call>>

\* reading d[pkg] back
Jsons_getitem ==
    /\ call.fn = "Jsons"
    /\ at = "getitem"
    /\ ret' = IF HasKey(locals.files, FileOf(call.key))
              THEN Returns(python_of(Get(locals.files, FileOf(call.key))))
              ELSE Raises("KeyError")
    /\ at' = "done"
    /\ UNCHANGED <<lifecycle, call, locals>>

NextJsons ==
    \/ Jsons_setitem
    \/ Jsons_getitem

SpecJsons == InitJsons /\ [][NextJsons]_vars

\* -------------------------------------------------- format_str_vals_of_dict
\* A str value is <<"str", tokens>>: its literal characters and its format
\* fields, in order. Any other value is <<"int", n>>.
Lit(c) == <<"lit", c>>
Field(n) == <<"field", n>>
Tmpl(tokens) == <<"str", tokens>>

\* partial_formatter.format_fields_set(s)
format_fields_set(v) == {t[2] : t \in {u \in Range(v[2]) : u[1] = "field"}}

\* _unformatted(d): the keys whose value is a str with format fields
_unformatted(dd) ==
    {dd[k][1] : k \in {n \in 1..Len(dd) : dd[n][2][1] = "str"
                                          /\ format_fields_set(dd[n][2]) # {}}}

\* _fields_to_format(d), as a set
_fields_to_format(dd) ==
    UNION {format_fields_set(dd[k][2]) : k \in {n \in 1..Len(dd) : dd[n][2][1] = "str"}}

\* str(value), as format inserts it
str_of(v) == IF v[1] = "str" THEN v[2] ELSE <<Lit(DecimalOf(v[2]))>>

\* every keyword argument is kept, also those that are keys of d
effective_kwargs_unfiltered(dd, kwargs) == kwargs

\* line 225: the keyword arguments that are not keys of d
effective_kwargs(dd, kwargs) == SelectSeq(kwargs, LAMBDA e : ~HasKey(dd, e[1]))

\* only the keys of d count as provided
provided_fields_keys_only(dd, kwargs) == Range(Keys(dd))

\* line 227
provided_fields(dd, kwargs) == Range(Keys(dd)) \cup Range(Keys(kwargs))

\* line 228
missing_fields(dd, kwargs) == _fields_to_format(dd) \ provided_fields(dd, kwargs)

\* partial_formatter.format(s, **kwargs, **d): a field that is given is
\* replaced by the text of its value, any other field stays as it is
RECURSIVE format(_, _, _)
format(tokens, kwargs, dd) ==
    IF tokens = <<>> THEN <<>>
    ELSE LET t == Head(tokens)
             rest == format(Tail(tokens), kwargs, dd)
         IN  IF t[1] = "field" /\ HasKey(kwargs, t[2]) THEN str_of(Get(kwargs, t[2])) \o rest
             ELSE IF t[1] = "field" /\ HasKey(dd, t[2]) THEN str_of(Get(dd, t[2])) \o rest
             ELSE <<t>> \o rest

\* lines 240-241: one pass over the unformatted keys, in the order `order`
RECURSIVE format_pass(_, _, _)
format_pass(dd, kwargs, order) ==
    IF order = <<>> THEN dd
    ELSE format_pass(SetItem(dd, Head(order),
                             Tmpl(format(Get(dd, Head(order))[2], kwargs, dd))),
                     kwargs, Tail(order))

\* the orders in which a set can be iterated
Orders(S) ==
    {o \in [1..Cardinality(S) -> S] : \A k1, k2 \in 1..Cardinality(S) :
                                          o[k1] = o[k2] => k1 = k2}

FormatKeys == <<"a", "b", "c">>
FormatValues ==
    {Tmpl(<<Lit("x")>>), Tmpl(<<Field("a")>>), Tmpl(<<Field("b")>>),
     Tmpl(<<Field("c"), Lit("/"), Field("e")>>), Tmpl(<<Field("e")>>), <<"int", 1>>}
\* the dicts with keys among FormatKeys
RECURSIVE DictsOver(_, _)
DictsOver(keys, values) ==
    IF keys = <<>> THEN {<<>>}
    ELSE LET rest == DictsOver(Tail(keys), values) IN
         rest \cup {<< <<Head(keys), v>> >> \o r : v \in values, r \in rest}
FormatDicts == DictsOver(FormatKeys, FormatValues)
\* the value given for a keyword argument
KwText(k) == CASE k = "b" -> "Kb" [] k = "c" -> "Kc" [] k = "e" -> "Ke"
KwValue(k) == Tmpl(<<Lit(KwText(k))>>)
FormatKwargs ==
    {<<>>,
     << <<"b", KwValue("b")>> >>,
     << <<"c", KwValue("c")>> >>,
     << <<"b", KwValue("b")>>, <<"c", KwValue("c")>> >>,
     << <<"b", KwValue("b")>>, <<"e", KwValue("e")>> >>,
     << <<"b", Tmpl(<<Field("c")>>)>> >>,
     << <<"e", KwValue("e")>> >>}

InitFormat ==
    /\ IdleWorld
    /\ \E D \in FormatDicts, K \in FormatKwargs, n \in 1..MaxLoops :
           call = [fn |-> "format_str_vals_of_dict", d |-> D, kwargs |-> K,
                   max_formatting_loops |-> n]
    /\ at = "check"
    /\ locals = [d |-> <<>>, kwargs |-> <<>>, i |-> 0]
    /\ ret = Pending

\* lines 223-234
format_str_vals_of_dict_check ==
    /\ call.fn = "format_str_vals_of_dict"
    /\ at = "check"
    /\ LET kw == effective_kwargs(call.d, call.kwargs)
           missing == missing_fields(call.d, kw)
       IN  /\ locals' = [d |-> call.d, kwargs |-> kw, i |-> 0]
           /\ IF missing # {}
              THEN ret' = Raises(<<"ValueError", "missing", missing>>) /\ at' = "done"
              ELSE at' = "loop" /\ UNCHANGED ret
    /\ UNCHANGED <<lifecycle, call>>

\* lines 236-241: a pass that finds unformatted values formats them
format_str_vals_of_dict_pass ==
    /\ call.fn = "format_str_vals_of_dict"
    /\ at = "loop"
    /\ locals.i < call.max_formatting_loops
    /\ _unformatted(locals.d) # {}
    /\ \E order \in Orders(_unformatted(locals.d)) :
           locals' = [locals EXCEPT !.d = format_pass(locals.d, locals.kwargs, order),
                                    !.i = locals.i + 1]
    /\ UNCHANGED <<lifecycle, call, at, ret>>

\* lines 242-243, 251: a pass that finds nothing unformatted ends the loop
format_str_vals_of_dict_break ==
    /\ call.fn = "format_str_vals_of_dict"
    /\ at = "loop"
    /\ locals.i < call.max_formatting_loops
    /\ _unformatted(locals.d) = {}
    /\ ret' = Returns(locals.d)
    /\ at' = "done"
    /\ UNCHANGED <<lifecycle, call, locals>>

\* lines 244-249: the else clause of the for loop, after the last pass
format_str_vals_of_dict_exhausted ==
    /\ call.fn = "format_str_vals_of_dict"
    /\ at = "loop"
    /\ locals.i = call.max_formatting_loops
    /\ ret' = Raises(<<"ValueError", "max loops", missing_fields(locals.d, locals.kwargs)>>)
    /\ at' = "done"
    /\ UNCHANGED <<lifecycle, call, locals>>

NextFormat ==
    \/ format_str_vals_of_dict_check
    \/ format_str_vals_of_dict_pass
    \/ format_str_vals_of_dict_break
    \/ format_str_vals_of_dict_exhausted

SpecFormat == InitFormat /\ [][NextFormat]_vars

\* -------------------------------------------------------------------- ujoin
\* x[start:stop], with 0-based bounds as Python has them
Slice(x, start, stop) ==
    IF start >= stop THEN <<>> ELSE SubSeq(x, start + 1, stop)

\* (x[0] == '/') and (x[-1] == '/') as the numbers 1 and 0
StartsWithSlash(x) == IF x[1] = "/" THEN 1 ELSE 0
EndsWithSlash(x) == IF x[Len(x)] = "/" THEN 1 ELSE 0

\* line 130: x[(x[0] == '/') : (len(x) - (x[-1] == '/'))]
Trimmed(x) == Slice(x, StartsWithSlash(x), Len(x) - EndsWithSlash(x))

\* '/'.join(parts)
RECURSIVE SlashJoin(_)
SlashJoin(parts) ==
    IF parts = <<>> THEN <<>>
    ELSE IF Len(parts) = 1 THEN parts[1]
    ELSE parts[1] \o <<"/">> \o SlashJoin(Tail(parts))

\* lines 127-133; x[0] and x[-1] of an empty str raise IndexError
ujoin(args) ==
    IF Len(args) = 0 \/ Len(args[1]) = 0 THEN Returns(<<>>)
    ELSE IF \E k \in 1..Len(args) : args[k] = <<>> THEN Raises("IndexError")
    ELSE Returns((IF StartsWithSlash(args[1]) = 1 THEN <<"/">> ELSE <<>>)
                 \o SlashJoin([k \in 1..Len(args) |-> Trimmed(args[k])])
                 \o (IF EndsWithSlash(args[Len(args)]) = 1 THEN <<"/">> ELSE <<>>))

UjoinTokens == SeqsUpTo({"a", "/"}, MaxTokenLen)
UjoinInputs == SeqsUpTo(UjoinTokens, MaxTokens)

InitUjoin ==
    /\ IdleWorld
    /\ \E a \in UjoinInputs : call = [fn |-> "ujoin", args |-> a]
    /\ at = "call"
    /\ locals = <<>>
    /\ ret = Pending

ujoin_call ==
    /\ call.fn = "ujoin"
    /\ at = "call"
    /\ ret' = ujoin(call.args)
    /\ at' = "done"
    /\ UNCHANGED <<lifecycle, call, locals>>

NextUjoin == ujoin_call

SpecUjoin == InitUjoin /\ [][NextUjoin]_vars

\* -------------------------------------------------------- is_not_a_pkg_name
\* the words argument: None (the default), a collection of words, or one str
NoWords == [kind |-> "None", items |-> {}, text |-> <<>>]
WordSet(S) == [kind |-> "collection", items |-> S, text |-> <<>>]
WordsStr(t) == [kind |-> "str", items |-> {}, text |-> t]

\* truth value of the words argument (line 107: words or simple_words)
Truthy(words) ==
    CASE words.kind = "None" -> FALSE
      [] words.kind = "collection" -> words.items # {}
      [] words.kind = "str" -> words.text # <<>>

\* text.split(',')
RECURSIVE split_on_comma(_)
split_on_comma(text) ==
    IF \A n \in 1..Len(text) : text[n] # ","
    THEN <<text>>
    ELSE LET n == CHOOSE m \in 1..Len(text) :
                      text[m] = "," /\ \A l \in 1..(m - 1) : text[l] # ","
         IN <<SubSeq(text, 1, n - 1)>>
            \o split_on_comma(SubSeq(text, n + 1, Len(text)))

\* the patterns tried: '.*' (the default), a literal, a literal followed by $
AnyRegex == [kind |-> "any", lit |-> <<>>]
LitRegex(l) == [kind |-> "lit", lit |-> l]
LitEndRegex(l) == [kind |-> "lit$", lit |-> l]

IsPrefix(l, w) == Len(l) <= Len(w) /\ SubSeq(w, 1, Len(l)) = l

\* re.compile(regex).match(w): the pattern has to match at the start of w
re_match(regex, w) ==
    CASE regex.kind = "any" -> TRUE
      [] regex.kind = "lit" -> IsPrefix(regex.lit, w)
      [] regex.kind = "lit$" -> w = regex.lit

\* line 107
words_or_simple_words(words, simple_words) ==
    IF Truthy(words) THEN words ELSE WordSet(simple_words)

\* lines 107-110
is_not_a_pkg_name(regex, words, simple_words, pkg_names) ==
    LET w1 == words_or_simple_words(words, simple_words)
        w2 == IF w1.kind = "str"
              THEN {strip(split_on_comma(w1.text)[n]) :
                       n \in 1..Len(split_on_comma(w1.text))}
              ELSE w1.items
    IN Returns({w \in w2 : re_match(regex, w)} \ pkg_names)

WordUniverse == {<<"a">>, <<"b">>, <<"a", "b">>}
RegexInputs == {AnyRegex, LitRegex(<<"a">>), LitEndRegex(<<"a">>), LitRegex(<<"b">>)}
WordsInputs ==
    {NoWords}
    \cup {WordSet(S) : S \in SUBSET WordUniverse}
    \cup {WordsStr(t) : t \in SeqsUpTo({"a", "b", ",", " "}, MaxWordsStr)}
\* the module's dictionary words and known package names (lines 50-53)
SimpleWordsInputs == {{}, {<<"a">>, <<"b">>}, WordUniverse}
PkgNamesInputs == SUBSET WordUniverse

InitNotPkg ==
    /\ IdleWorld
    /\ \E r \in RegexInputs, w \in WordsInputs,
          sw \in SimpleWordsInputs, pn \in PkgNamesInputs :
           call = [fn |-> "is_not_a_pkg_name", regex |-> r, words |-> w,
                   simple_words |-> sw, pkg_names |-> pn]
    /\ at = "call"
    /\ locals = <<>>
    /\ ret = Pending

is_not_a_pkg_name_call ==
    /\ call.fn = "is_not_a_pkg_name"
    /\ at = "call"
    /\ ret' = is_not_a_pkg_name(call.regex, call.words,
                                call.simple_words, call.pkg_names)
    /\ at' = "done"
    /\ UNCHANGED <<lifecycle, call, locals>>

NextNotPkg == is_not_a_pkg_name_call

SpecNotPkg == InitNotPkg /\ [][NextNotPkg]_vars

\* ----------------------------------------------------- reading the log
Min(S) == CHOOSE x \in S : \A y \in S : x <= y

\* positions in the log of the calls `what` made for the k-th package
Positions(what, k) == {n \in 1..Len(log) : log[n][1] = what /\ log[n][2] = k}

\* diagnose_pkg has been left (by return or by an exception) for the k-th package
Exited(k) == k < i \/ (k = i /\ pc \in {"exit", "raised", "returned"})

\* the installation check of the k-th package ended with c
CheckSaid(k, c) == \E n \in Positions("check", k) : log[n][4] = c

\* ------------------------------------------------------------------ claims

\* C1: for a package that the installation check reports as not installed
\* (install_pkg_if_not_installed true), install_package is invoked before the
\* first diagnosis function is called, and on every way out of diagnose_pkg
\* (return or exception) the pip uninstall step has been invoked exactly once,
\* after the last diagnosis function that was called.
C1_InstallFirstUninstallLast ==
    (/\ pc \in {"body", "finally", "exit", "raised"}
     /\ i <= Len(pkgs)
     /\ install_pkg_if_not_installed
     /\ CheckSaid(i, "False"))
    => /\ \A nd \in Positions("diagnosis", i) :
              \E ni \in Positions("install", i) : ni < nd
       /\ pc \in {"exit", "raised"} =>
              /\ Cardinality(Positions("install", i)) = 1
              /\ Cardinality(Positions("uninstall", i)) = 1
              /\ \A nu \in Positions("uninstall", i) :
                     /\ \A ni \in Positions("install", i) : ni < nu
                     /\ \A nd \in Positions("diagnosis", i) : nd < nu

\* C1 witness: diagnose_pkg was left for a package that was not installed, one
\* of its diagnoses raised, and the package was uninstalled after it
C1_Witness ==
    \E k \in 1..Len(pkgs) :
        /\ Exited(k)
        /\ CheckSaid(k, "False")
        /\ \E nd \in Positions("diagnosis", k), nu \in Positions("uninstall", k) :
               log[nd][4] = "raise" /\ nd < nu

\* C2: for a package installed in the interpreter's environment when
\* diagnose_pkg starts, no run invokes the pip uninstall step for it, whatever
\* the installation check and the diagnoses do, and the installed packages are
\* the same after the run as before.
C2_NeverUninstallsInstalled ==
    (/\ pc \in {"enter", "install", "body", "finally", "exit", "raised"}
     /\ i <= Len(pkgs)
     /\ Requirement(pkg_name).error = "none"
     /\ Requirement(pkg_name).name \in installed_before["e1"])
    => /\ Positions("uninstall", i) = {}
       /\ installed = installed_before

\* C3: when diagnose_pkg returns, every diagnosis has been called once, in the
\* order of the mapping; the keys of the result are the names of those that
\* returned, in that order; a diagnosis that raised is not a key, and the error
\* callback was invoked once for it, right after it raised, with the package,
\* the name and the error.
DiagnosisEvents(k) == SelectSeq(log, LAMBDA e : e[1] = "diagnosis" /\ e[2] = k)
ReturnedEvents(k) ==
    SelectSeq(log, LAMBDA e : e[1] = "diagnosis" /\ e[2] = k /\ e[4] = "return")
EventNames(evs) == [n \in 1..Len(evs) |-> evs[n][3]]

C3_ResultKeysAreTheReturned ==
    /\ log # <<>> =>
           LET n == Len(log) IN
           /\ ~(log[n][1] = "diagnosis" /\ log[n][4] = "raise")
           /\ log[n][1] = "error_logger" =>
                  /\ n > 1
                  /\ log[n - 1] = <<"diagnosis", log[n][2], log[n][3], "raise">>
           /\ (n > 1 /\ log[n - 1][1] = "diagnosis" /\ log[n - 1][4] = "raise") =>
                  log[n][1] = "error_logger"
    /\ pc = "exit" =>
           /\ EventNames(DiagnosisEvents(i)) = Keys(diagnoses)
           /\ Keys(d) = EventNames(ReturnedEvents(i))

\* C3 witness: diagnose_pkg returns a result after a diagnosis raised and a
\* later one returned
C3_Witness ==
    /\ pc = "exit"
    /\ \E n1, n2 \in Positions("diagnosis", i) :
           /\ n1 < n2
           /\ log[n1][4] = "raise"
           /\ log[n2][4] = "return"
           /\ HasKey(d, log[n2][3])
           /\ ~HasKey(d, log[n1][3])


\* C4: _resolve_diagnoses raises the unknown-diagnosis error, naming the
\* string, exactly when a bare name of its input is no key of diagnosis_funcs;
\* in diagnose_pkgs the error is raised before any installation check, install
\* or diagnosis.
BareNames(arg) ==
    IF arg.kind = "mapping" THEN <<>>
    ELSE IF arg.kind = "str" THEN <<arg.name>>
    ELSE LET bare == SelectSeq(arg.items, LAMBDA x : x.isstr)
         IN  [k \in 1..Len(bare) |-> bare[k].name]
Registered == {"json_info", "pkg_diagnosis_result", "pkg_folder_diagnosis_result",
               "test_diagnosis_result", "all_json_info"}
UnknownNames(arg) == SelectSeq(BareNames(arg), LAMBDA n : n \notin Registered)
ResolutionDone == IF entry = "diagnose_pkgs" THEN pc # "call" ELSE pc # "begin"
UnknownDiagnosisRaised == pc = "raised" /\ exc[1] = "ValueError" /\ exc[2] # "-"

C4_UnknownNameRaisesFirst ==
    ResolutionDone =>
        /\ UnknownDiagnosisRaised <=> UnknownNames(diagArg) # <<>>
        /\ UnknownDiagnosisRaised =>
               /\ exc[2] = UnknownNames(diagArg)[1]
               /\ log = <<>>
               /\ installed = installed_before
               /\ store = <<>>

\* C4 witness: diagnose_pkgs on a non-empty package list raised for "bogus",
\* which came after a registered name
C4_Witness ==
    /\ entry = "diagnose_pkgs"
    /\ pc = "raised"
    /\ exc = <<"ValueError", "bogus">>
    /\ pkgs # <<>>
    /\ diagArg.kind = "iter"
    /\ diagArg.items[1].name \in Registered

\* C5: for an iterable of distinct names, all bare names registered, bare
\* names and pairs mixed, _resolve_diagnoses returns a mapping with one entry
\* per element, in the order of the input, whose value is the registered
\* function for a bare name and the given function for a pair.
DistinctNames(xs) == \A k1, k2 \in 1..Len(xs) : xs[k1].name = xs[k2].name => k1 = k2
RegisteredFunction(n) ==
    CASE n = "json_info" -> "dflt_json_info_extractor"
      [] n = "pkg_diagnosis_result" -> "run_pkg_diagnosis"
      [] n = "pkg_folder_diagnosis_result" -> "run_folder_diagnosis"
      [] n = "test_diagnosis_result" -> "run_pkg_tests"
      [] n = "all_json_info" -> "json_package_info"

C5_ResolveKeepsOrder ==
    (/\ diagArg.kind = "iter"
     /\ DistinctNames(diagArg.items)
     /\ UnknownNames(diagArg) = <<>>
     /\ ResolutionDone)
    => /\ ~UnknownDiagnosisRaised
       /\ Len(diagnoses) = Len(diagArg.items)
       /\ \A k \in 1..Len(diagnoses) :
              /\ diagnoses[k][1] = diagArg.items[k].name
              /\ diagnoses[k][2] = IF diagArg.items[k].isstr
                                   THEN RegisteredFunction(diagArg.items[k].name)
                                   ELSE diagArg.items[k].fn

\* C5 witness: three distinct names resolved, bare names and a pair mixed
C5_Witness ==
    /\ ResolutionDone
    /\ diagArg.kind = "iter"
    /\ DistinctNames(diagArg.items)
    /\ Len(diagnoses) = 3
    /\ \E k1, k2 \in 1..3 : diagArg.items[k1].isstr /\ ~diagArg.items[k2].isstr

\* C6: with every diagnosis name registered, diagnose_pkgs completes and its
\* store has an entry for every package: no failure of the installation check,
\* of install, of uninstall or of a diagnosis makes it raise.
C6_BatchAlwaysCompletes ==
    (entry = "diagnose_pkgs" /\ UnknownNames(diagArg) = <<>>)
    => /\ pc = "raised" => exc[1] = "SystemExit"
       /\ pc = "returned" => \A k \in 1..Len(pkgs) : HasKey(store, pkgs[k])

\* C7: when the pip process started by install_package fails, install_package
\* does not raise and diagnose_pkg goes on with the diagnoses.
C7_InstallFailureIsSwallowed ==
    (/\ pc \in {"body", "finally"}
     /\ log # <<>>
     /\ log[Len(log)][1] = "install"
     /\ pip_result \in {"nonzero", "oserror"})
    => pc = "body" /\ exc = NoExc

\* C8: in diagnose_pkgs the packages are processed one after the other in the
\* order of the list: the calls made for a package all come before the calls
\* made for the next one, and when the next one is checked the previous one has
\* its result in the store and, if it had to be installed, was uninstalled.
RECURSIVE FirstOccurrences(_, _)
FirstOccurrences(s, seen) ==
    IF s = <<>> THEN <<>>
    ELSE IF Head(s) \in seen THEN FirstOccurrences(Tail(s), seen)
    ELSE <<Head(s)>> \o FirstOccurrences(Tail(s), seen \cup {Head(s)})

C8_OnePackageAtATime ==
    entry = "diagnose_pkgs" =>
        /\ log # <<>> => log[Len(log)][2] <= i
        /\ Len(log) > 1 => log[Len(log) - 1][2] <= log[Len(log)][2]
        /\ pc \in {"install", "body", "finally", "exit"} =>
               /\ log # <<>> /\ log[Len(log)][2] = i
               /\ Positions("check", i) # {}
               /\ i > 1 =>
                      /\ HasKey(store, pkgs[i - 1])
                      /\ \A n \in Positions("check", i - 1) :
                             /\ n < Min(Positions("check", i))
                             /\ log[n][4] = "False" =>
                                    \E nu \in Positions("uninstall", i - 1) :
                                        nu < Min(Positions("check", i))
        /\ pc \in {"loop", "returned"} =>
               Keys(store) = FirstOccurrences(SubSeq(pkgs, 1, i - 1), {})

\* C8 witness: the second package is being diagnosed after the first one was
\* installed, diagnosed and uninstalled
C8_Witness ==
    /\ entry = "diagnose_pkgs"
    /\ pc = "body"
    /\ i = 2
    /\ pkgs[1] # pkgs[2]
    /\ CheckSaid(1, "False")
    /\ Positions("diagnosis", 1) # {}
    /\ Positions("uninstall", 1) # {}

\* C9: for each form of the pkgs argument (a list, a whitespace-separated
\* string, the path of a file with one name per line) the lifecycle runs once
\* per listed package and the keys of the store are exactly the package names.
ListedNames ==
    IF ~pkgsArg.isstr THEN pkgsArg.list
    ELSE IF isfile(pkgsArg.str, fs) THEN split(fs)
    ELSE split(pkgsArg.str)

C9_KeysAreTheListedNames ==
    (entry = "diagnose_pkgs" /\ pc = "returned")
    => /\ Range(Keys(store)) = Range(ListedNames)
       /\ Cardinality({n \in 1..Len(log) : log[n][1] = "check"}) = Len(ListedNames)

\* the store holds, for every package of the list, the names of the mapping
\* in its order, each with the length of the package name
FunctionValuesStored ==
    /\ Range(Keys(store)) = Range(pkgsArg.list)
    /\ \A k \in 1..Len(pkgsArg.list) :
           LET p == pkgsArg.list[k]
               r == Get(store, p)
           IN  /\ Keys(r) = Keys(diagArg.items)
               /\ \A m \in 1..Len(r) : r[m][2] = <<"int", Len(p)>>

\* C10: for every list of packages P and every mapping M of names to functions
\* that do not raise (here len), diagnose_pkgs(P, M) with the in-memory store
\* returns, it does not raise, and the mapping r it returns has the packages
\* of P as keys, and r[p] has the names of M as keys, in the order of M, with
\* r[p][n] = M[n](p), the length of the package name.
C10_ReturnsTheFunctionValues ==
    (/\ entry = "diagnose_pkgs"
     /\ ~pkgsArg.isstr
     /\ diagArg.kind = "mapping"
     /\ \A m \in 1..Len(diagArg.items) : diagArg.items[m][2] = "len")
    => /\ pc # "raised"
       /\ pc = "returned" => FunctionValuesStored


\* C11: in run_pkg_tests the doctest, unittest and pytest sub-probes are
\* attempted in that order and independently: a sub-probe that fails with an
\* exception has no key in the returned mapping, the others are still
\* attempted, and run_pkg_tests does not raise.
ProbeKey(probe) ==
    CASE probe = "doctest" -> "doctest_results"
      [] probe = "unittest" -> "unittest_results"
      [] probe = "pytest" -> "pytest_results"

C11_SubProbesAreIndependent ==
    (/\ call.fn = "run_pkg_tests"
     /\ at = "done"
     /\ locals.probes # <<>>)
    => /\ ret.kind = "return"
       /\ [k \in 1..Len(locals.probes) |-> locals.probes[k][1]]
              = <<"doctest", "unittest", "pytest">>
       /\ Keys(ret.val) =
              [k \in 1..Len(SelectSeq(locals.probes, LAMBDA e : e[2] = "return")) |->
                  ProbeKey(SelectSeq(locals.probes, LAMBDA e : e[2] = "return")[k][1])]


\* C12: dflt_json_info_extractor raises for no metadata object, the empty
\* mapping of a non-200 response and metadata lacking any of the extracted
\* paths included: each missing field is reported as None and the number of
\* releases is reported, 0 when there are none.
C12_ExtractorToleratesMissingPaths ==
    (call.fn = "dflt_json_info_extractor" /\ at = "done")
    => /\ ret.kind = "return"
       /\ HasKey(ret.val, "n_releases")
       /\ ~HasKey(call.info_dict, "releases") => Get(ret.val, "n_releases") = <<"int", 0>>
       /\ \A k \in 1..6 :
              /\ HasKey(ret.val, ExtractedPaths[k][1])
              /\ path_get(call.info_dict, ExtractedPaths[k][2]) = None
                     => Get(ret.val, ExtractedPaths[k][1]) = None


\* C13: a store_factory string resolves as the command-line help says: "dict"
\* gives an in-memory dict, the path of an existing folder gives a store
\* writing in that folder, any other string gives an in-memory dict.
C13_StoreSelectorFollowsHelp ==
    (/\ call.fn = "_resolve_store_factory"
     /\ at = "done"
     /\ call.store_factory.isstr)
    => ret = IF call.store_factory.str = <<"d", "i", "c", "t">> THEN Returns("dict")
             ELSE IF call.store_factory.str \in call.dirs
                  THEN Returns(JsonsFactory(call.store_factory.str))
                  ELSE Returns("dict")


\* C14: main run with package names and without --diagnoses runs every
\* registered diagnosis on each package and completes by printing the
\* results: it does not raise.
C14_MainWithoutDiagnosesCompletes ==
    (call.fn = "main" /\ call.diagnoses = NoneArg)
    => /\ at = "done" => ret.kind = "return"
       /\ pc # "raised"


\* C15 as stated: the value read back by package-name key from the
\* folder-backed store equals the result mapping of the in-memory store.
C15_FolderStoreRoundTrip ==
    (call.fn = "Jsons" /\ at = "done") => ret = Returns(PyDict(call.value))

\* C15, amended: the value read back from the folder-backed store equals the
\* in-memory result mapping when the results are JSON values: None, numbers,
\* strings, lists of such and dicts of such with str keys.
RECURSIVE JsonValue(_)
JsonValue(v) ==
    CASE v[1] \in {"None", "int", "str"} -> TRUE
      [] v[1] = "list" -> \A k \in 1..Len(v[2]) : JsonValue(v[2][k])
      [] v[1] = "dict" -> \A k \in 1..Len(v[2]) :
                              v[2][k][1][1] = "str" /\ JsonValue(v[2][k][2])
      [] OTHER -> FALSE

C15_FolderStoreRoundTripOfJsonValues ==
    (call.fn = "Jsons" /\ JsonValue(PyDict(call.value)))
    => /\ at = "getitem" => HasKey(locals.files, FileOf(call.key))
       /\ at = "done" => ret = Returns(PyDict(call.value))

\* C15 witness: a result with a number, and a dict holding None, was written
\* under a requirement with a version and read back
C15_Witness ==
    /\ call.fn = "Jsons"
    /\ at = "done"
    /\ call.key = <<"a", "<", "1">>
    /\ call.value = << <<"length", <<"int", 1>> >>,
                       <<"json_info", <<"dict", << <<Str("total_files"), None>> >> >> >> >>
    /\ ret = Returns(PyDict(call.value))


\* C16: format_str_vals_of_dict raises the ValueError that names the missing
\* fields, before formatting anything, exactly when a format field of a str
\* value of d is neither a key of d nor a keyword argument.
MissingOf(D, K) ==
    {f \in UNION {format_fields_set(D[k][2]) : k \in {n \in 1..Len(D) : D[n][2][1] = "str"}} :
        ~HasKey(D, f) /\ ~HasKey(K, f)}
RaisedMissing == ret.kind = "raise" /\ ret.val[2][2] = "missing"

C16_MissingFieldsRaiseFirst ==
    (call.fn = "format_str_vals_of_dict" /\ at # "check")
    => /\ RaisedMissing <=> MissingOf(call.d, call.kwargs) # {}
       /\ MissingOf(call.d, call.kwargs) # {} =>
              /\ at = "done"
              /\ ret = Raises(<<"ValueError", "missing", MissingOf(call.d, call.kwargs)>>)
              /\ locals.d = call.d
              /\ locals.i = 0

\* C16 witness: a field given by a keyword argument and a field that is missing
C16_Witness ==
    /\ call.fn = "format_str_vals_of_dict"
    /\ at = "done"
    /\ call.d = << <<"a", Tmpl(<<Field("b")>>)>>, <<"c", Tmpl(<<Field("e")>>)>> >>
    /\ call.kwargs = << <<"b", KwValue("b")>> >>
    /\ ret.kind = "raise"
    /\ ret = Raises(<<"ValueError", "missing", {"e"}>>)

\* C17: when every format field of the str values of d is a key of d or a
\* keyword argument, format_str_vals_of_dict returns within
\* max_formatting_loops passes a dict whose str values have no format field left.
C17_FormattingCompletes ==
    (/\ call.fn = "format_str_vals_of_dict"
     /\ at = "done"
     /\ MissingOf(call.d, call.kwargs) = {})
    => /\ ret.kind = "return"
       /\ _unformatted(ret.val) = {}

\* C18: when a name is a key of d and a keyword argument, the value of d is
\* the one substituted in the templates and kept in the result, and the value
\* of the keyword argument is never used.
Conflicts == {k \in Range(Keys(call.d)) : HasKey(call.kwargs, k)}
Fieldless(v) == v[1] # "str" \/ format_fields_set(v) = {}

C18_MappingWinsOverKwargs ==
    (call.fn = "format_str_vals_of_dict" /\ at # "check")
    => \A k \in Conflicts :
          /\ ~HasKey(locals.kwargs, k)
          /\ \A n \in 1..Len(locals.d) :
                 locals.d[n][2][1] = "str" =>
                     Lit(KwText(k)) \notin Range(locals.d[n][2][2])
          /\ (ret.kind = "return" /\ Fieldless(Get(call.d, k))) =>
                 /\ Get(ret.val, k) = Get(call.d, k)
                 /\ \A n \in 1..Len(call.d) :
                        call.d[n][2] = Tmpl(<<Field(k)>>) =>
                            ret.val[n] = <<call.d[n][1], Tmpl(str_of(Get(call.d, k)))>>

\* C18 witness: {'a': '{b}', 'b': 'x'} formatted with b given as a keyword
\* argument too: 'a' became 'x'
C18_Witness ==
    /\ call.fn = "format_str_vals_of_dict"
    /\ at = "done"
    /\ call.d = << <<"a", Tmpl(<<Field("b")>>)>>, <<"b", Tmpl(<<Lit("x")>>)>> >>
    /\ call.kwargs = << <<"b", KwValue("b")>> >>
    /\ ret.kind = "return"
    /\ ret = Returns(<< <<"a", Tmpl(<<Lit("x")>>)>>, <<"b", Tmpl(<<Lit("x")>>)>> >>)


\* C19: for every sequence of str tokens ujoin returns the tokens joined with
\* exactly one '/' between consecutive tokens, keeping a leading '/' of the
\* first token and a trailing '/' of the last; ujoin() and ujoin('') are ''.
HasDoubleSlash(x) == \E n \in 1..(Len(x) - 1) : x[n] = "/" /\ x[n + 1] = "/"

C19_UjoinJoinsWithOneSlash ==
    (call.fn = "ujoin" /\ at = "done")
    => /\ ret.kind = "return"
       /\ (call.args = <<>> \/ call.args = << <<>> >>) => ret.val = <<>>
       /\ (\A k \in 1..Len(call.args) : call.args[k] # <<>> /\ ~HasDoubleSlash(call.args[k]))
              => /\ ~HasDoubleSlash(ret.val)
                 /\ call.args # <<>> =>
                        /\ ret.val[1] = "/" <=> call.args[1][1] = "/"
                        /\ ret.val[Len(ret.val)] = "/"
                               <=> EndsWithSlash(call.args[Len(call.args)]) = 1


\* C20: for every regex and every collection of input words,
\* is_not_a_pkg_name returns a subset of the input words: exactly the input
\* words that match the regex and are not package names.
C20_SubsetOfTheInputWords ==
    (call.fn = "is_not_a_pkg_name" /\ at = "done" /\ call.words.kind = "collection")
    => /\ ret.kind = "return"
       /\ ret.val \subseteq call.words.items
       /\ ret.val = {w \in call.words.items :
                        re_match(call.regex, w) /\ w \notin call.pkg_names}


\* C21: the mapping that _resolve_diagnoses returns for an iterable never has
\* two entries for one name: when the iterable gives a name more than once, as
\* a bare name or as a pair, the function of the last occurrence is the one
\* kept, and the one that diagnose_pkg runs.
FunctionOf(x) == IF x.isstr THEN RegisteredFunction(x.name) ELSE x.fn
LastOccurrence(xs, n) ==
    CHOOSE k \in 1..Len(xs) :
        xs[k].name = n /\ \A l \in (k + 1)..Len(xs) : xs[l].name # n
\* the values that the function f can return for the package p
ReturnValues(f, p) ==
    {o.val : o \in {r \in UNION {Call(f, p, ws, inst, "e1") : ws, inst \in SUBSET Names} :
                        r.kind = "return"}}

C21_LastOccurrenceWins ==
    (/\ diagArg.kind = "iter"
     /\ UnknownNames(diagArg) = <<>>
     /\ ResolutionDone)
    => /\ \A k1, k2 \in 1..Len(diagnoses) :
              diagnoses[k1][1] = diagnoses[k2][1] => k1 = k2
       /\ Range(Keys(diagnoses)) = {diagArg.items[k].name : k \in 1..Len(diagArg.items)}
       /\ \A k \in 1..Len(diagnoses) :
              diagnoses[k][2] =
                  FunctionOf(diagArg.items[LastOccurrence(diagArg.items, diagnoses[k][1])])
       /\ pc = "exit" =>
              /\ EventNames(DiagnosisEvents(i)) = Keys(diagnoses)
              /\ \A k \in 1..Len(d) :
                     d[k][2] \in ReturnValues(Get(diagnoses, d[k][1]), pkg_name)

\* C21 witness: diagnose_pkg("a", [("length", int), ("length", len)]) returns
\* {"length": 1}, and diagnose_pkg resolved a name given first as a bare name
\* and then in a pair
C21_Witness ==
    /\ entry = "diagnose_pkg"
    /\ pc = "exit"
    /\ diagArg = IterArg(<<Pair("length", "int"), Pair("length", "len")>>)
    /\ d = << <<"length", <<"int", 1>> >> >>


\* C22: when the distribution of the package cannot be located,
\* run_folder_diagnosis and run_pkg_tests each return None and do not raise;
\* run_pkg_diagnosis returns None when the import of the package fails, that
\* is, whenever __import__ does not give the module.
C22_AbsentOrUnimportableGivesNone ==
    at = "done" =>
        /\ (/\ call.fn \in {"run_folder_diagnosis", "run_pkg_tests"}
            /\ get_distribution(call.pkg_name, working_set, installed["e1"])
                   = "DistributionNotFound")
           => ret = Returns(None)
        /\ (call.fn = "run_pkg_diagnosis" /\ call.imported # "module")
           => ret = Returns(None)


\* C23: when diagnose_pkg is called with install_pkg_if_not_installed false,
\* the installation check, install_package and the pip uninstall step are
\* never invoked, on any way out: only the diagnoses run.
C23_NothingInstalledWhenNotAsked ==
    (entry = "diagnose_pkg" /\ ~install_pkg_if_not_installed)
    => /\ log # <<>> => log[Len(log)][1] \in {"diagnosis", "error_logger"}
       /\ installed = installed_before
       /\ pip_result = "-"
       /\ pc = "exit" => EventNames(DiagnosisEvents(i)) = Keys(diagnoses)

\* C23 witness: diagnose_pkg with install_pkg_if_not_installed false was left
\* by an exception that a diagnosis let through, for a package that is not
\* installed
C23_Witness ==
    /\ entry = "diagnose_pkg"
    /\ ~install_pkg_if_not_installed
    /\ pc = "raised"
    /\ exc[1] = "SystemExit"
    /\ Positions("diagnosis", 1) # {}
    /\ is_package_installed(pkgs[1], working_set, installed["e1"]) = "False"


\* C24: for a package that was not installed, when the install and the
\* uninstall commands both succeed, the package is no longer installed, after
\* diagnose_pkg returns, in the environment install_package installed it
\* into: the install and the uninstall step work on the same environment, and
\* every environment has the same installed packages after the run as before.
PipSaid(what, k, o) == \E n \in Positions(what, k) : log[n][4] = o

C24_EnvironmentsAreRestored ==
    (/\ pc = "exit"
     /\ install_pkg_if_not_installed
     /\ CheckSaid(i, "False")
     /\ PipSaid("install", i, "ok")
     /\ PipSaid("uninstall", i, "ok"))
    => /\ Requirement(pkg_name).name \notin installed[testEnv]
       /\ installed = installed_before

====
